---- MODULE Spec2Model ----
(***************************************************************************)
(* Model of samples/main.py: the ABE performance harness.                  *)
(*   PerformanceMonitor, generate_test_data, run_performance_test,         *)
(*   export_results_to_csv and run_performance_scenarios.                  *)
(*                                                                         *)
(* Conventions.                                                            *)
(*   - A Python string is a sequence of one-character strings, so that     *)
(*     formatting and parsing are computed and not assumed.                *)
(*   - None is the empty tuple, a captured value v is <<v>>.               *)
(*   - Floats are integers in the unit the report prints: wall-clock       *)
(*     readings are whole milliseconds (time_seconds holds the difference  *)
(*     of two readings in that unit), CPU readings are whole percent,      *)
(*     memory readings are whole KB.                                       *)
(*   - The external ABE capability and the psutil providers are            *)
(*     nondeterministic: every call may raise, every reading is drawn      *)
(*     from the set the host can deliver.                                  *)
(***************************************************************************)
EXTENDS Integers, Sequences, FiniteSets, TLC

VARIABLES
    host,               \* the readings the OS providers of this run can deliver
    data_sizes,         \* run_performance_scenarios: the requested sizes
    pc,                 \* position in the program
    phase,              \* run_performance_test: the phase being measured
    idx,                \* position of the for loop in data_sizes (1-based)
    pk, msk,            \* result of cpabe.setup()
    setup_calls,        \* number of cpabe.setup() calls so far
    all_results,        \* run_performance_scenarios: all_results
    exc,                \* exception in flight or last caught ("none" if none)
    outcome,            \* per finished case: "ok", or the kind of exception
    console,            \* lines printed so far
    csv_file,           \* content of the CSV file (None: there is no file)
    csv_data,           \* export_results_to_csv: csv_data
    calls,              \* calls of the running case so far: <<operation, args>>
    system_cpu_before,  \* PerformanceMonitor.system_cpu_before
    system_cpu_after,   \* PerformanceMonitor.system_cpu_after
    process_cpu,        \* get_cpu_percent_isolated: process_cpu
    test_data, key, msg, ctxt, rec_msg,
    initial_memory, final_memory, start_time, end_time, cpu_usage,
    results             \* run_performance_test: results

suite  == <<data_sizes, idx, pk, msk, setup_calls, all_results, outcome>>
output == <<console, csv_file, csv_data>>
mon    == <<system_cpu_before, system_cpu_after, process_cpu>>
abe    == <<test_data, key, msg, ctxt, rec_msg>>
meas   == <<initial_memory, final_memory, start_time, end_time, cpu_usage>>
vars   == <<host, pc, phase, exc, calls, results, suite, output, mon, abe, meas>>

----------------------------------------------------------------------------
(* Bounds of the model *)

MaxCases == 2

None == <<>>
Some(v) == <<v>>

Max(a, b) == IF a >= b THEN a ELSE b
Min(a, b) == IF a <= b THEN a ELSE b

\* Sizes of a suite run with several cases.
SuiteSizes == {100, 1024}

\* The sizes of main.py line 237 and the neighbours of the KB/MB boundary.
CaseSizes == {1, 10, 100, 250, 500, 750, 1023, 1024, 1025, 1280, 1536, 2047,
              5120, 7168, 10240}

\* Values pairing_group.random(GT) and decrypt can deliver: elements of GT.
GTValues == {[element |-> "g1"], [element |-> "g2"]}

\* Readings: clock in milliseconds, rss in bytes, proc_cpu and sys_cpu in
\* percent.  A host whose readings move: the wall clock may step back, the
\* resident set may shrink, the process CPU reading may be zero or above 100.
NoisyHost == [clock    |-> {1, 2},
              rss      |-> {1024, 2048},
              proc_cpu |-> {0, 50, 150},
              sys_cpu  |-> {20, 70}]

\* A host whose readings are steady.
QuietHost == [clock    |-> {5},
              rss      |-> {3072},
              proc_cpu |-> {0, 50},
              sys_cpu  |-> {20}]

\* The host of a monitor that is driven directly: every system-wide reading
\* from idle to saturated.
MonitorHost == [clock    |-> {5},
                rss      |-> {3072},
                proc_cpu |-> {0, 50, 150},
                sys_cpu  |-> {0, 20, 70, 100}]

\* The content of a CSV file left by an earlier run.
OldCsv == <<<<"ABE">>>>

SeqsUpTo(S, n) == UNION {[1..k -> S] : k \in 0..n}

----------------------------------------------------------------------------
(* Strings *)

DigitChar(d) == CASE d = 0 -> "0" [] d = 1 -> "1" [] d = 2 -> "2" [] d = 3 -> "3"
                  [] d = 4 -> "4" [] d = 5 -> "5" [] d = 6 -> "6" [] d = 7 -> "7"
                  [] d = 8 -> "8" [] d = 9 -> "9"

DigitValue(c) == CASE c = "0" -> 0 [] c = "1" -> 1 [] c = "2" -> 2 [] c = "3" -> 3
                   [] c = "4" -> 4 [] c = "5" -> 5 [] c = "6" -> 6 [] c = "7" -> 7
                   [] c = "8" -> 8 [] c = "9" -> 9

\* str(n) for n >= 0
RECURSIVE Digits(_)
Digits(n) == IF n < 10 THEN <<DigitChar(n)>>
             ELSE Digits(n \div 10) \o <<DigitChar(n % 10)>>

\* str(n) for an integer n
Str(n) == IF n < 0 THEN <<"-">> \o Digits(0 - n) ELSE Digits(n)

\* int(s) for a string of decimal digits
RECURSIVE ParseInt(_)
ParseInt(s) == IF Len(s) = 0 THEN 0
               ELSE 10 * ParseInt(SubSeq(s, 1, Len(s) - 1)) + DigitValue(s[Len(s)])

\* s.replace('KB', '')
RECURSIVE RemoveKB(_)
RemoveKB(s) == IF Len(s) < 2 THEN s
               ELSE IF s[1] = "K" /\ s[2] = "B" THEN RemoveKB(SubSeq(s, 3, Len(s)))
               ELSE <<s[1]>> \o RemoveKB(Tail(s))

Zeros(d) == [i \in 1..d |-> "0"]

\* f"{x:.<d>f}" for a float x that holds the integer n
FormatFixed(n, d) == Str(n) \o (IF d = 0 THEN <<>> ELSE <<".">> \o Zeros(d))

\* f"{p/q:.1f}" for integers p >= 0, q > 0: the quotient rounded to tenths,
\* a tie going to the even tenth (the quotient is exact in binary when q is a
\* power of two, so the tie is a real tie).
FormatTenths(p, q) ==
    LET t   == (10 * p) \div q
        r   == (10 * p) % q
        up  == (2 * r > q) \/ (2 * r = q /\ t % 2 = 1)
        ten == IF up THEN t + 1 ELSE t
    IN  Digits(ten \div 10) \o <<".">> \o <<DigitChar(ten % 10)>>

----------------------------------------------------------------------------
(* PerformanceMonitor *)

\* get_memory_usage: rss / 1024, for a resident set of rss_bytes bytes
get_memory_usage(rss_bytes) == rss_bytes \div 1024

\* get_cpu_percent_isolated with the test of line 45 made non-strict
get_cpu_percent_isolated_nonneg(proc, before, after) ==
    IF proc >= 0 THEN proc
    ELSE IF before # None /\ after # None
         THEN LET cpu_delta == Max(0, after[1] - before[1])
              IN  Min(cpu_delta, 100)
         ELSE 0

\* The value get_cpu_percent_isolated returns for a process-level reading and
\* the monitor's two system-wide fields (None or <<reading>>).
get_cpu_percent_isolated(proc, before, after) ==
    IF proc > 0 THEN proc
    ELSE IF before # None /\ after # None
         THEN LET cpu_delta == Max(0, after[1] - before[1])
              IN  Min(cpu_delta, 100)
         ELSE 0

----------------------------------------------------------------------------
(* run_performance_test *)

attr_list  == <<"ONE", "TWO", "THREE">>
policy_str == "((ONE and THREE) and (TWO OR FOUR))"

generate_test_data(size_kb) == [byte |-> "A", length |-> size_kb * 1024]

\* 'time_seconds': end_time - start_time
time_seconds(start, end) == end - start

\* memory_kb without the clamp of lines 111 and 132
memory_kb_unclamped(initial, final) == final - initial

\* 'memory_kb': max(0, memory_used), memory_used = final_memory - initial_memory
memory_kb(initial, final) == Max(0, final - initial)

Phases == {"encryption", "decryption"}

----------------------------------------------------------------------------
(* export_results_to_csv *)

\* ColumnLabel with the comparison of line 153 made strict
ColumnLabel_strict(data_size_kb) ==
    LET size     == Str(data_size_kb) \o <<"K", "B">>
        kb_value == ParseInt(RemoveKB(size))
    IN  IF kb_value > 1024
        THEN IF kb_value % 1024 = 0
             THEN Digits(kb_value \div 1024) \o <<"M", "B">>
             ELSE FormatTenths(kb_value, 1024) \o <<"M", "B">>
        ELSE size

\* The column header of one result: f"{data_size_kb}KB", re-labelled in MB
\* when the number read back from the label is at least 1024.
ColumnLabel(data_size_kb) ==
    LET size     == Str(data_size_kb) \o <<"K", "B">>
        kb_value == ParseInt(RemoveKB(size))
    IN  IF kb_value >= 1024
        THEN IF kb_value % 1024 = 0
             THEN Digits(kb_value \div 1024) \o <<"M", "B">>
             ELSE FormatTenths(kb_value, 1024) \o <<"M", "B">>
        ELSE size

\* KeyCreationCell that varies with the position of the result's size in a
\* cycle of 16
KeyCreationCell_mod16(result) ==
    Str(81 + (result.data_size_kb % 16)) \o <<"m", "s">>

KeyCreationCell(result) == Str(81 + (result.data_size_kb % 15)) \o <<"m", "s">>

\* time_seconds * 1000 printed with three decimals; the model's time unit is
\* already the millisecond
TimeCell(op) == FormatFixed(op.time_seconds, 3) \o <<"m", "s">>
CpuCell(op)  == FormatFixed(op.cpu_percent, 2) \o <<"%">>
RamCell(op)  == FormatFixed(op.memory_kb, 0) \o <<"K", "B">>

Row(label, cells) == <<label>> \o cells

\* BuildCsvData with the CPU row of the encryption phase filled from the
\* results in reverse order
BuildCsvData_reversed(rs) ==
    LET Col(F(_)) == [j \in 1..Len(rs) |-> F(rs[j])]
        Rev(F(_)) == [j \in 1..Len(rs) |-> F(rs[Len(rs) + 1 - j])]
        Header(r) == ColumnLabel(r.data_size_kb)
        EncT(r)   == TimeCell(r.encryption)
        EncC(r)   == CpuCell(r.encryption)
        EncR(r)   == RamCell(r.encryption)
        DecT(r)   == TimeCell(r.decryption)
        DecC(r)   == CpuCell(r.decryption)
        DecR(r)   == RamCell(r.decryption)
    IN  << Row("ABE", Col(Header)),
           Row("Key Creation Time", Col(KeyCreationCell)),
           Row("Data Encryption - Time", Col(EncT)),
           Row("Data Encryption - CPU", Rev(EncC)),
           Row("Data Encryption - RAM", Col(EncR)),
           Row("Data Decryption - Time", Col(DecT)),
           Row("Data Decryption - CPU", Col(DecC)),
           Row("Data Decryption - RAM", Col(DecR)) >>

\* csv_data as built by lines 160-215
BuildCsvData(rs) ==
    LET Col(F(_)) == [j \in 1..Len(rs) |-> F(rs[j])]
        Header(r) == ColumnLabel(r.data_size_kb)
        EncT(r)   == TimeCell(r.encryption)
        EncC(r)   == CpuCell(r.encryption)
        EncR(r)   == RamCell(r.encryption)
        DecT(r)   == TimeCell(r.decryption)
        DecC(r)   == CpuCell(r.decryption)
        DecR(r)   == RamCell(r.decryption)
    IN  << Row("ABE", Col(Header)),
           Row("Key Creation Time", Col(KeyCreationCell)),
           Row("Data Encryption - Time", Col(EncT)),
           Row("Data Encryption - CPU", Col(EncC)),
           Row("Data Encryption - RAM", Col(EncR)),
           Row("Data Decryption - Time", Col(DecT)),
           Row("Data Decryption - CPU", Col(DecC)),
           Row("Data Decryption - RAM", Col(DecR)) >>

----------------------------------------------------------------------------
(* The program: run_performance_scenarios *)

NoFrame ==
    /\ phase = "none"
    /\ system_cpu_before = None /\ system_cpu_after = None /\ process_cpu = 0
    /\ test_data = None /\ key = None /\ msg = None /\ ctxt = None
    /\ rec_msg = None
    /\ initial_memory = 0 /\ final_memory = 0
    /\ start_time = 0 /\ end_time = 0 /\ cpu_usage = 0
    /\ results = None

\* The locals of run_performance_test and its monitor go away with the call.
DropFrame ==
    /\ phase' = "none"
    /\ system_cpu_before' = None /\ system_cpu_after' = None /\ process_cpu' = 0
    /\ test_data' = None /\ key' = None /\ msg' = None /\ ctxt' = None
    /\ rec_msg' = None
    /\ initial_memory' = 0 /\ final_memory' = 0
    /\ start_time' = 0 /\ end_time' = 0 /\ cpu_usage' = 0
    /\ results' = None
    /\ calls' = <<>>

Init ==
    /\ \/ host = NoisyHost /\ data_sizes \in [1..1 -> SuiteSizes]
       \/ host = QuietHost /\ data_sizes \in [1..1 -> CaseSizes]
       \/ host = QuietHost /\ data_sizes \in SeqsUpTo(SuiteSizes, MaxCases)
    /\ pc = "setup"
    /\ idx = 1
    /\ pk = None /\ msk = None /\ setup_calls = 0
    /\ all_results = <<>>
    /\ exc = "none"
    /\ outcome = <<>>
    /\ console = <<>>
    /\ csv_file \in {None, Some(OldCsv)}
    /\ csv_data = None
    /\ calls = <<>>
    /\ NoFrame

size_kb == data_sizes[idx]

Log(op, args) == calls' = Append(calls, <<op, args>>)

Say(lines) == console' = console \o lines

\* An exception raised inside run_performance_test: control goes to the
\* except clause of line 265.
Raise(op, args, kind) ==
    /\ Log(op, args)
    /\ exc' = kind
    /\ pc' = "except"
    /\ UNCHANGED <<host, phase, results, suite, output, mon, abe, meas>>

\* lines 240-246
Setup ==
    /\ pc = "setup"
    /\ setup_calls' = setup_calls + 1
    /\ \/ /\ pk' = Some("pk") /\ msk' = Some("msk")
          /\ Say(<<<<"banner">>, <<"columns">>, <<"rule">>>>)
          /\ pc' = "loop"
          /\ UNCHANGED exc
       \/ /\ exc' = "capability"
          /\ pc' = "propagated"
          /\ UNCHANGED <<pk, msk, console>>
    /\ UNCHANGED <<host, phase, calls, results, data_sizes, idx, all_results,
                   outcome, csv_file, csv_data, mon, abe, meas>>

\* lines 250-252: the next size
NextSize ==
    /\ pc = "loop"
    /\ idx <= Len(data_sizes)
    /\ Say(<<<<"testing", size_kb>>>>)
    /\ pc' = "monitor"
    /\ UNCHANGED <<host, phase, exc, calls, results, suite, csv_file, csv_data,
                   mon, abe, meas>>

\* line 250: the sizes are exhausted
LoopEnd ==
    /\ pc = "loop"
    /\ idx > Len(data_sizes)
    /\ pc' = "export"
    /\ UNCHANGED <<host, phase, exc, calls, results, suite, output, mon, abe, meas>>

----------------------------------------------------------------------------
(* run_performance_test *)

\* line 65, lines 16-21
NewMonitor ==
    /\ pc = "monitor"
    /\ \/ /\ Log("PerformanceMonitor", <<>>)
          /\ system_cpu_before' = None /\ system_cpu_after' = None
          /\ pc' = "generate"
          /\ UNCHANGED <<host, phase, exc, results, suite, output, process_cpu,
                         abe, meas>>
       \/ Raise("PerformanceMonitor", <<>>, "os")

\* line 68
GenerateTestData ==
    /\ pc = "generate"
    /\ test_data' = Some(generate_test_data(size_kb))
    /\ Log("generate_test_data", <<size_kb>>)
    /\ pc' = "keygen"
    /\ UNCHANGED <<host, phase, exc, results, suite, output, mon, key, msg, ctxt,
                   rec_msg, meas>>

\* Keygen that runs setup again for the case and replaces the shared pair
Keygen_resetup ==
    /\ pc = "keygen"
    /\ LET args == <<pk, msk, attr_list>>
       IN  \/ /\ key' = Some([attrs |-> attr_list])
              /\ pk' = Some("pk'") /\ msk' = Some("msk'")
              /\ setup_calls' = setup_calls + 1
              /\ Log("keygen", args)
              /\ pc' = "random"
              /\ UNCHANGED <<host, phase, exc, results, data_sizes, idx,
                             all_results, outcome, output, mon, test_data, msg,
                             ctxt, rec_msg, meas>>
           \/ Raise("keygen", args, "capability")

\* lines 71-73
Keygen ==
    /\ pc = "keygen"
    /\ LET args == <<pk, msk, attr_list>>
       IN  \/ /\ key' = Some([attrs |-> attr_list])
              /\ Log("keygen", args)
              /\ pc' = "random"
              /\ UNCHANGED <<host, phase, exc, results, suite, output, mon,
                             test_data, msg, ctxt, rec_msg, meas>>
           \/ Raise("keygen", args, "capability")

\* lines 77-90
RandomGT ==
    /\ pc = "random"
    /\ \/ /\ \E m \in GTValues : msg' = Some(m)
          /\ results' = [data_size_kb |-> size_kb,
                         encryption |-> None, decryption |-> None]
          /\ Log("random", <<"GT">>)
          /\ phase' = "encryption"
          /\ pc' = "gc"
          /\ UNCHANGED <<host, exc, suite, output, mon, test_data, key, ctxt,
                         rec_msg, meas>>
       \/ Raise("random", <<"GT">>, "capability")

\* GcCollect after which the monitor is started before the baseline memory
\* reading is taken (the reading is skipped)
GcCollect_no_baseline ==
    /\ pc = "gc"
    /\ Log("gc.collect", <<phase>>)
    /\ pc' = "start_monitoring"
    /\ UNCHANGED <<host, phase, exc, results, suite, output, mon, abe, meas>>

\* lines 93, 115
GcCollect ==
    /\ pc = "gc"
    /\ Log("gc.collect", <<phase>>)
    /\ pc' = "initial_memory"
    /\ UNCHANGED <<host, phase, exc, results, suite, output, mon, abe, meas>>

\* lines 96, 116
InitialMemory ==
    /\ pc = "initial_memory"
    /\ \/ /\ \E rss \in host.rss : initial_memory' = get_memory_usage(rss)
          /\ Log("get_memory_usage", <<phase>>)
          /\ pc' = "start_monitoring"
          /\ UNCHANGED <<host, phase, exc, results, suite, output, mon, abe,
                         final_memory, start_time, end_time, cpu_usage>>
       \/ Raise("get_memory_usage", <<phase>>, "os")

\* lines 97, 117, lines 27-34
StartMonitoring ==
    /\ pc = "start_monitoring"
    /\ \/ /\ \E sys \in host.sys_cpu : system_cpu_before' = Some(sys)
          /\ Log("start_monitoring", <<phase>>)
          /\ pc' = "start_time"
          /\ UNCHANGED <<host, phase, exc, results, suite, output,
                         system_cpu_after, process_cpu, abe, meas>>
       \/ Raise("start_monitoring", <<phase>>, "os")

\* lines 99, 120
StartTime ==
    /\ pc = "start_time"
    /\ \E t \in host.clock : start_time' = t
    /\ Log("time", <<phase, "start">>)
    /\ pc' = "call"
    /\ UNCHANGED <<host, phase, exc, results, suite, output, mon, abe,
                   initial_memory, final_memory, end_time, cpu_usage>>

\* Encrypt that passes the synthetic buffer through the timed call
Encrypt_buffer ==
    /\ pc = "call" /\ phase = "encryption"
    /\ LET args == <<pk, test_data, policy_str>>
       IN  \/ /\ ctxt' = Some([policy |-> policy_str, plain |-> test_data[1]])
              /\ Log("encrypt", args)
              /\ pc' = "end_time"
              /\ UNCHANGED <<host, phase, exc, results, suite, output, mon,
                             test_data, key, msg, rec_msg, meas>>
           \/ Raise("encrypt", args, "capability")

\* line 100
Encrypt ==
    /\ pc = "call" /\ phase = "encryption"
    /\ LET args == <<pk, msg, policy_str>>
       IN  \/ /\ ctxt' = Some([policy |-> policy_str, plain |-> msg[1]])
              /\ Log("encrypt", args)
              /\ pc' = "end_time"
              /\ UNCHANGED <<host, phase, exc, results, suite, output, mon,
                             test_data, key, msg, rec_msg, meas>>
           \/ Raise("encrypt", args, "capability")

\* line 121
Decrypt ==
    /\ pc = "call" /\ phase = "decryption"
    /\ LET args == <<pk, ctxt, key>>
       IN  \/ /\ \E m \in GTValues : rec_msg' = Some(m)
              /\ Log("decrypt", args)
              /\ pc' = "end_time"
              /\ UNCHANGED <<host, phase, exc, results, suite, output, mon,
                             test_data, key, msg, ctxt, meas>>
           \/ Raise("decrypt", args, "capability")

\* lines 101, 122
EndTime ==
    /\ pc = "end_time"
    /\ \E t \in host.clock : end_time' = t
    /\ Log("time", <<phase, "end">>)
    /\ pc' = "cpu"
    /\ UNCHANGED <<host, phase, exc, results, suite, output, mon, abe,
                   initial_memory, final_memory, start_time, cpu_usage>>

\* lines 104, 125, lines 36-53
GetCpu ==
    /\ pc = "cpu"
    /\ \/ /\ \E proc \in host.proc_cpu, sys \in host.sys_cpu :
                /\ process_cpu' = proc
                /\ system_cpu_after' = Some(sys)
                /\ cpu_usage' = get_cpu_percent_isolated(
                                    proc, system_cpu_before, Some(sys))
          /\ Log("get_cpu_percent_isolated", <<phase>>)
          /\ pc' = "final_memory"
          /\ UNCHANGED <<host, phase, exc, results, suite, output,
                         system_cpu_before, abe, initial_memory, final_memory,
                         start_time, end_time>>
       \/ Raise("get_cpu_percent_isolated", <<phase>>, "os")

\* lines 105-112, 126-133
FinalMemory ==
    /\ pc = "final_memory"
    /\ \/ /\ \E rss \in host.rss :
                LET final == get_memory_usage(rss)
                    sample == [time_seconds |-> time_seconds(start_time, end_time),
                               cpu_percent  |-> cpu_usage,
                               memory_kb    |-> memory_kb(initial_memory, final)]
                IN  /\ final_memory' = final
                    /\ results' = [results EXCEPT ![phase] = sample]
          /\ Log("get_memory_usage", <<phase>>)
          /\ IF phase = "encryption"
             THEN phase' = "decryption" /\ pc' = "gc"
             ELSE phase' = phase /\ pc' = "verify"
          /\ UNCHANGED <<host, exc, suite, output, mon, abe, initial_memory,
                         start_time, end_time, cpu_usage>>
       \/ Raise("get_memory_usage", <<phase>>, "os")

\* Verify that reports success whatever decrypt returned
Verify_always ==
    /\ pc = "verify"
    /\ results' = [data_size_kb |-> results.data_size_kb,
                   encryption   |-> results.encryption,
                   decryption   |-> results.decryption,
                   success      |-> TRUE]
    /\ pc' = "append"
    /\ UNCHANGED <<host, phase, exc, calls, suite, output, mon, abe, meas>>

\* lines 136-138
Verify ==
    /\ pc = "verify"
    /\ results' = [data_size_kb |-> results.data_size_kb,
                   encryption   |-> results.encryption,
                   decryption   |-> results.decryption,
                   success      |-> (rec_msg = msg)]
    /\ pc' = "append"
    /\ UNCHANGED <<host, phase, exc, calls, suite, output, mon, abe, meas>>

\* AppendResult that keeps one result per size
AppendResult_dedup ==
    /\ pc = "append"
    /\ all_results' =
          IF \E j \in 1..Len(all_results) :
                 all_results[j].data_size_kb = results.data_size_kb
          THEN all_results
          ELSE Append(all_results, results)
    /\ Say(<<<<"encryption", size_kb, results.encryption, results.success>>,
             <<"decryption", results.decryption, results.success>>,
             <<"rule">>>>)
    /\ outcome' = Append(outcome, "ok")
    /\ idx' = idx + 1
    /\ pc' = "loop"
    /\ DropFrame
    /\ UNCHANGED <<host, exc, data_sizes, pk, msk, setup_calls, csv_file,
                   csv_data>>

\* lines 253-263: the case returned
AppendResult ==
    /\ pc = "append"
    /\ all_results' = Append(all_results, results)
    /\ Say(<<<<"encryption", size_kb, results.encryption, results.success>>,
             <<"decryption", results.decryption, results.success>>,
             <<"rule">>>>)
    /\ outcome' = Append(outcome, "ok")
    /\ idx' = idx + 1
    /\ pc' = "loop"
    /\ DropFrame
    /\ UNCHANGED <<host, exc, data_sizes, pk, msk, setup_calls, csv_file,
                   csv_data>>

\* CaseExcept that records a zeroed placeholder for the failed case
CaseExcept_placeholder ==
    /\ pc = "except"
    /\ Say(<<<<"error", size_kb, exc>>>>)
    /\ all_results' =
          Append(all_results,
                 [data_size_kb |-> size_kb,
                  encryption |-> [time_seconds |-> 0, cpu_percent |-> 0,
                                  memory_kb |-> 0],
                  decryption |-> [time_seconds |-> 0, cpu_percent |-> 0,
                                  memory_kb |-> 0],
                  success |-> FALSE])
    /\ outcome' = Append(outcome, exc)
    /\ exc' = "none"
    /\ idx' = idx + 1
    /\ pc' = "loop"
    /\ DropFrame
    /\ UNCHANGED <<host, data_sizes, pk, msk, setup_calls, csv_file, csv_data>>

\* lines 265-267: the case raised
CaseExcept ==
    /\ pc = "except"
    /\ Say(<<<<"error", size_kb, exc>>>>)
    /\ outcome' = Append(outcome, exc)
    /\ exc' = "none"
    /\ idx' = idx + 1
    /\ pc' = "loop"
    /\ DropFrame
    /\ UNCHANGED <<host, data_sizes, pk, msk, setup_calls, all_results,
                   csv_file, csv_data>>

----------------------------------------------------------------------------
(* export_results_to_csv and the summary *)

\* ExportEmpty that still opens the file and leaves it empty
ExportEmpty_truncate ==
    /\ pc = "export"
    /\ all_results = <<>>
    /\ Say(<<<<"No results to export">>>>)
    /\ csv_file' = Some(<<>>)
    /\ pc' = "summary"
    /\ UNCHANGED <<host, phase, exc, calls, results, suite, csv_data, mon, abe,
                   meas>>

\* lines 143-145
ExportEmpty ==
    /\ pc = "export"
    /\ all_results = <<>>
    /\ Say(<<<<"No results to export">>>>)
    /\ pc' = "summary"
    /\ UNCHANGED <<host, phase, exc, calls, results, suite, csv_file, csv_data,
                   mon, abe, meas>>

\* lines 147-215
ExportBuild ==
    /\ pc = "export"
    /\ all_results # <<>>
    /\ csv_data' = Some(BuildCsvData(all_results))
    /\ pc' = "write"
    /\ UNCHANGED <<host, phase, exc, calls, results, suite, console, csv_file,
                   mon, abe, meas>>

\* lines 219-228: the file is written, then the rows are printed
ExportWrite ==
    /\ pc = "write"
    /\ csv_file' = csv_data
    /\ Say(<<<<"Results exported to">>, <<"=== CSV Content ===">>>>
           \o [i \in 1..Len(csv_data[1]) |-> <<"row", csv_data[1][i]>>])
    /\ pc' = "summary"
    /\ UNCHANGED <<host, phase, exc, calls, results, suite, csv_data, mon, abe,
                   meas>>

\* lines 219-222, 230-231: open or writerows raises; the file keeps what was
\* written before the failure (nothing when open itself failed)
ExportWriteFails ==
    /\ pc = "write"
    /\ \/ UNCHANGED csv_file
       \/ \E k \in 0..(Len(csv_data[1]) - 1) :
             csv_file' = Some(SubSeq(csv_data[1], 1, k))
    /\ exc' = "io"
    /\ Say(<<<<"Error writing CSV file">>>>)
    /\ pc' = "summary"
    /\ UNCHANGED <<host, phase, calls, results, suite, csv_data, mon, abe, meas>>

\* lines 272-280
Summary ==
    /\ pc = "summary"
    /\ Say(<<<<"=== Summary Statistics ===">>>>
           \o (IF all_results # <<>>
               THEN <<<<"Average Encryption Time by Data Size:">>>>
                    \o [i \in 1..Len(all_results) |->
                          <<"summary", all_results[i].data_size_kb,
                            all_results[i].encryption.time_seconds,
                            all_results[i].decryption.time_seconds>>]
               ELSE <<>>))
    /\ pc' = "done"
    /\ UNCHANGED <<host, phase, exc, calls, results, suite, csv_file, csv_data,
                   mon, abe, meas>>

Next ==
    \/ Setup \/ NextSize \/ LoopEnd
    \/ NewMonitor \/ GenerateTestData \/ Keygen \/ RandomGT
    \/ GcCollect \/ InitialMemory \/ StartMonitoring \/ StartTime
    \/ Encrypt \/ Decrypt
    \/ EndTime \/ GetCpu \/ FinalMemory \/ Verify
    \/ AppendResult \/ CaseExcept
    \/ ExportEmpty \/ ExportBuild \/ ExportWrite \/ ExportWriteFails
    \/ Summary

Spec == Init /\ [][Next]_vars

----------------------------------------------------------------------------
(* PerformanceMonitor driven directly: its two methods called in any order *)

\* lines 16-21: a monitor was constructed, nothing else runs
MonitorInit ==
    /\ host = MonitorHost
    /\ data_sizes = <<>>
    /\ pc = "monitor_new"
    /\ idx = 1
    /\ pk = None /\ msk = None /\ setup_calls = 0
    /\ all_results = <<>>
    /\ exc = "none"
    /\ outcome = <<>>
    /\ console = <<>>
    /\ csv_file = None
    /\ csv_data = None
    /\ calls = <<>>
    /\ NoFrame

MonitorIdle == pc \in {"monitor_new", "monitor_started", "monitor_read"}

\* lines 27-34
MonitorStart ==
    /\ MonitorIdle
    /\ \E sys \in host.sys_cpu : system_cpu_before' = Some(sys)
    /\ pc' = "monitor_started"
    /\ UNCHANGED <<host, phase, exc, calls, results, suite, output,
                   system_cpu_after, process_cpu, abe, meas>>

\* lines 36-53
MonitorGetCpu ==
    /\ MonitorIdle
    /\ \E proc \in host.proc_cpu, sys \in host.sys_cpu :
          /\ process_cpu' = proc
          /\ system_cpu_after' = Some(sys)
          /\ cpu_usage' = get_cpu_percent_isolated(
                              proc, system_cpu_before, Some(sys))
    /\ pc' = "monitor_read"
    /\ UNCHANGED <<host, phase, exc, calls, results, suite, output,
                   system_cpu_before, abe, initial_memory, final_memory,
                   start_time, end_time>>

MonitorNext == MonitorStart \/ MonitorGetCpu

MonitorSpec == MonitorInit /\ [][MonitorNext]_vars

----------------------------------------------------------------------------
(* Properties *)

AfterLoop == pc \in {"export", "write", "summary", "done"}

SizesOf(rs) == [j \in 1..Len(rs) |-> rs[j].data_size_kb]

\* The sizes among the first n requested whose case did not raise, in order.
RECURSIVE Kept(_)
Kept(n) == IF n = 0 THEN <<>>
           ELSE IF outcome[n] = "ok" THEN Append(Kept(n - 1), data_sizes[n])
           ELSE Kept(n - 1)

Printed(line) == \E i \in 1..Len(console) : console[i] = line

\* C1: once the loop is over every requested size has been tried, and
\* all_results holds exactly the sizes whose case did not raise, in the
\* requested order; a case that raised left no entry.
FailureIsolation ==
    AfterLoop =>
        /\ Len(outcome) = Len(data_sizes)
        /\ SizesOf(all_results) = Kept(Len(data_sizes))

\* A run of two cases is over, the first raised inside a capability call and
\* the second returned.
FailureIsolationWitness ==
    /\ pc = "done"
    /\ outcome = <<"capability", "ok">>
    /\ SizesOf(all_results) = <<data_sizes[2]>>

\* C2: the CPU percentage a phase reports is within [0, 100].
CpuWithinRange ==
    pc = "final_memory" => (cpu_usage >= 0 /\ cpu_usage <= 100)

\* C3: when writing the CSV file fails, the error is printed, every row of
\* the matrix is still printed, and the run goes on to its summary.
ExportFailureStillRenders ==
    (pc \in {"summary", "done"} /\ exc = "io") =>
        /\ Printed(<<"Error writing CSV file">>)
        /\ \A r \in 1..Len(csv_data[1]) : Printed(<<"row", csv_data[1][r]>>)

\* C4: no exception leaves run_performance_scenarios, whichever capability
\* call raises.
NoFailureIsFatal == pc # "propagated"

\* C5: a failing OS query raises nothing to its caller, and no case is lost
\* to it.
IntrospectionFailureIsLocal ==
    /\ exc # "os"
    /\ \A i \in 1..Len(outcome) : outcome[i] # "os"

\* C6: when no case raised, all_results has one entry per requested size,
\* the i-th carrying the i-th requested size, duplicates included.
ResultOrder ==
    (AfterLoop /\ \A i \in 1..Len(outcome) : outcome[i] = "ok") =>
        /\ Len(all_results) = Len(data_sizes)
        /\ \A i \in 1..Len(data_sizes) :
              all_results[i].data_size_kb = data_sizes[i]

\* A run that requested the same size twice is over and no case raised.
ResultOrderWitness ==
    /\ pc = "done"
    /\ Len(data_sizes) = 2 /\ data_sizes[1] = data_sizes[2]
    /\ outcome = <<"ok", "ok">>
    /\ Len(all_results) = 2

ReportLabels == <<"ABE", "Key Creation Time", "Data Encryption - Time",
                  "Data Encryption - CPU", "Data Encryption - RAM",
                  "Data Decryption - Time", "Data Decryption - CPU",
                  "Data Decryption - RAM">>

\* C7: the matrix built from n results has the 8 rows of the report in their
\* fixed order, each of 1 + n cells, and cell j + 1 of each row is the cell
\* of the j-th result.
ReportShape ==
    csv_data # None =>
        LET m == csv_data[1]
            n == Len(all_results)
        IN  /\ n >= 1
            /\ Len(m) = 8
            /\ \A r \in 1..8 : Len(m[r]) = 1 + n /\ m[r][1] = ReportLabels[r]
            /\ \A j \in 1..n :
                  LET res == all_results[j]
                  IN  /\ m[1][j + 1] = ColumnLabel(res.data_size_kb)
                      /\ m[2][j + 1] = KeyCreationCell(res)
                      /\ m[3][j + 1] = TimeCell(res.encryption)
                      /\ m[4][j + 1] = CpuCell(res.encryption)
                      /\ m[5][j + 1] = RamCell(res.encryption)
                      /\ m[6][j + 1] = TimeCell(res.decryption)
                      /\ m[7][j + 1] = CpuCell(res.decryption)
                      /\ m[8][j + 1] = RamCell(res.decryption)

\* The matrix is built from two results of the same size whose encryption
\* CPU readings differ.
ReportShapeWitness ==
    /\ csv_data # None
    /\ Len(all_results) = 2
    /\ all_results[1].data_size_kb = all_results[2].data_size_kb
    /\ all_results[1].encryption.cpu_percent
         # all_results[2].encryption.cpu_percent
    /\ Len(csv_data[1]) = 8

\* The phase whose sample was stored by the last step, if that step stored one.
JustStored ==
    IF pc = "gc" /\ phase = "decryption" THEN <<"encryption">>
    ELSE IF pc = "verify" THEN <<"decryption">>
    ELSE <<>>

\* C8: memory_kb of both phases is >= 0 in every result; it is 0 when the
\* reading after the call is below the baseline and after - before otherwise.
MemoryClamp ==
    /\ \A j \in 1..Len(all_results) :
          /\ all_results[j].encryption.memory_kb >= 0
          /\ all_results[j].decryption.memory_kb >= 0
    /\ \A i \in 1..Len(JustStored) :
          results[JustStored[i]].memory_kb =
              IF final_memory < initial_memory THEN 0
              ELSE final_memory - initial_memory

\* The decryption sample was stored after the resident set shrank.
MemoryClampWitness ==
    /\ pc = "verify"
    /\ final_memory < initial_memory
    /\ results.decryption.memory_kb = 0

\* C9: time_seconds of both phases is >= 0 in every result.
ElapsedNonNegative ==
    \A j \in 1..Len(all_results) :
        /\ all_results[j].encryption.time_seconds >= 0
        /\ all_results[j].decryption.time_seconds >= 0

IsDigit(c) == c \in {"0", "1", "2", "3", "4", "5", "6", "7", "8", "9"}

Dots(s) == Cardinality({i \in 1..Len(s) : s[i] = "."})

EndsWith(s, a, b) == Len(s) >= 3 /\ s[Len(s) - 1] = a /\ s[Len(s)] = b

\* The labels the specification lists.
LabelExamples ==
    [s \in {1, 100, 1024, 5120, 7168, 10240, 1536} |->
        CASE s = 1     -> <<"1", "K", "B">>
          [] s = 100   -> <<"1", "0", "0", "K", "B">>
          [] s = 1024  -> <<"1", "M", "B">>
          [] s = 5120  -> <<"5", "M", "B">>
          [] s = 7168  -> <<"7", "M", "B">>
          [] s = 10240 -> <<"1", "0", "M", "B">>
          [] s = 1536  -> <<"1", ".", "5", "M", "B">>]

\* The label lab is right for size s.
LabelOk(s, lab) ==
    LET body == SubSeq(lab, 1, Len(lab) - 2)
    IN  /\ s < 1024 =>
              /\ EndsWith(lab, "K", "B")
              /\ \A i \in 1..Len(body) : IsDigit(body[i])
              /\ ParseInt(body) = s
        /\ (s >= 1024 /\ s % 1024 = 0) =>
              /\ EndsWith(lab, "M", "B")
              /\ \A i \in 1..Len(body) : IsDigit(body[i])
              /\ ParseInt(body) * 1024 = s
        /\ (s >= 1024 /\ s % 1024 # 0) =>
              /\ EndsWith(lab, "M", "B")
              /\ Dots(body) = 1
              /\ Len(body) >= 3
              /\ body[Len(body) - 1] = "."
              /\ IsDigit(body[Len(body)])
              /\ \A i \in 1..(Len(body) - 2) : IsDigit(body[i])
              /\ LET tenths == 10 * ParseInt(SubSeq(body, 1, Len(body) - 2))
                                 + DigitValue(body[Len(body)])
                     d == 1024 * tenths - 10 * s
                 IN  d <= 512 /\ 0 - d <= 512
        /\ s \in DOMAIN LabelExamples => lab = LabelExamples[s]

\* C10: the column label of a size below 1024 is the size followed by KB;
\* from 1024 on it is size/1024 followed by MB, without a decimal point for a
\* multiple of 1024 and with exactly one decimal digit otherwise.
ColumnLabels ==
    csv_data # None =>
        \A j \in 1..Len(all_results) :
            LabelOk(all_results[j].data_size_kb, csv_data[1][1][j + 1])

\* The header of a report for the size 1536 is built.
ColumnLabelsWitness ==
    /\ csv_data # None
    /\ all_results[1].data_size_kb = 1536
    /\ csv_data[1][1][2] = <<"1", ".", "5", "M", "B">>

\* The result of the three-branch chain for the readings of the last call.
ChainValue ==
    IF process_cpu > 0 THEN process_cpu
    ELSE IF system_cpu_before = None THEN 0
    ELSE LET d == system_cpu_after[1] - system_cpu_before[1]
         IN  IF d < 0 THEN 0 ELSE IF d > 100 THEN 100 ELSE d

\* C11: get_cpu_percent_isolated returns a process-level reading above zero
\* unchanged; otherwise, with a baseline, the system-wide difference clamped
\* to [0, 100]; otherwise, without a baseline, 0.
CpuFallbackChain ==
    pc \in {"monitor_read", "final_memory"} => cpu_usage = ChainValue

\* The function was called on a monitor that never captured a baseline and
\* the process-level reading was zero.
CpuFallbackChainWitness ==
    /\ pc = "monitor_read"
    /\ system_cpu_before = None
    /\ system_cpu_after # None
    /\ process_cpu = 0
    /\ cpu_usage = 0

\* C12: the success flag of a returned result is true exactly when the value
\* decrypt returned equals the random value that was encrypted in the case.
SuccessFlag ==
    pc = "append" => (results.success <=> (rec_msg = msg))

\* A case is about to return whose decryption recovered another value.
SuccessFlagWitness ==
    /\ pc = "append"
    /\ rec_msg # msg
    /\ results.success = FALSE

\* C13: setup() is called once, before the first case; every capability call
\* of a case is given the pair it returned; and no step after setup changes
\* the pair, so it is the same after the last case as right after setup.
SharedKeyMaterial ==
    /\ [](pc = "setup" => (setup_calls = 0 /\ idx = 1 /\ outcome = <<>>))
    /\ [](pc \notin {"setup", "propagated"} =>
            (setup_calls = 1 /\ pk # None /\ msk # None))
    /\ [](\A i \in 1..Len(calls) :
            /\ calls[i][1] = "keygen" =>
                  (calls[i][2][1] = pk /\ calls[i][2][2] = msk)
            /\ calls[i][1] \in {"encrypt", "decrypt"} => calls[i][2][1] = pk)
    /\ [][pc # "setup" =>
            (pk' = pk /\ msk' = msk /\ setup_calls' = setup_calls)]_vars

\* A run of two cases that both returned is over, after one setup.
SharedKeyMaterialWitness ==
    /\ pc = "done"
    /\ outcome = <<"ok", "ok">>
    /\ setup_calls = 1
    /\ pk = Some("pk") /\ msk = Some("msk")

\* C14: the key-creation cell of a result of size s is the integer
\* 81 + (s mod 15) followed by "ms"; the integer is within [81, 95], and two
\* results of the same size have the same cell.
KeyCreationRow ==
    csv_data # None =>
        LET row == csv_data[1][2]
            n   == Len(all_results)
        IN  /\ \A j \in 1..n :
                  LET cell == row[j + 1]
                      body == SubSeq(cell, 1, Len(cell) - 2)
                      s    == all_results[j].data_size_kb
                  IN  /\ EndsWith(cell, "m", "s")
                      /\ \A i \in 1..Len(body) : IsDigit(body[i])
                      /\ ParseInt(body) = 81 + (s % 15)
                      /\ ParseInt(body) >= 81 /\ ParseInt(body) <= 95
            /\ \A j, k \in 1..n :
                  all_results[j].data_size_kb = all_results[k].data_size_kb
                      => row[j + 1] = row[k + 1]

\* The report holds two results of the size 100 that differ in a measurement;
\* both key-creation cells read "91ms".
KeyCreationRowWitness ==
    /\ csv_data # None
    /\ Len(all_results) = 2
    /\ all_results[1].data_size_kb = 100 /\ all_results[2].data_size_kb = 100
    /\ all_results[1] # all_results[2]
    /\ csv_data[1][2][2] = <<"9", "1", "m", "s">>
    /\ csv_data[1][2][3] = <<"9", "1", "m", "s">>

\* The operations of one case, in the order of lines 65-133.
CaseOps ==
    <<"PerformanceMonitor", "generate_test_data", "keygen", "random",
      "gc.collect", "get_memory_usage", "start_monitoring", "time",
      "encrypt", "time", "get_cpu_percent_isolated", "get_memory_usage",
      "gc.collect", "get_memory_usage", "start_monitoring", "time",
      "decrypt", "time", "get_cpu_percent_isolated", "get_memory_usage">>

\* The phase the i-th operation of a case belongs to.
PhaseOf(i) == IF i <= 4 THEN "none"
              ELSE IF i <= 12 THEN "encryption" ELSE "decryption"

\* C15: the operations of a case are made in the order gc, baseline memory,
\* start_monitoring, one timed call, get_cpu_percent_isolated, final memory,
\* first for encryption and then for decryption; start_monitoring has run
\* when get_cpu_percent_isolated is called; and a case starts only when all
\* earlier cases are over.
InstrumentationOrder ==
    /\ Len(calls) <= Len(CaseOps)
    /\ \A i \in 1..Len(calls) :
          /\ calls[i][1] = CaseOps[i]
          /\ (PhaseOf(i) # "none" /\ calls[i][1] \notin {"encrypt", "decrypt"})
                => calls[i][2][1] = PhaseOf(i)
          /\ calls[i][1] = "time" =>
                calls[i][2][2] = (IF CaseOps[i + 1] = "get_cpu_percent_isolated"
                                  THEN "end" ELSE "start")
    /\ pc = "cpu" => system_cpu_before # None
    /\ pc \in {"verify", "append"} => Len(calls) = Len(CaseOps)
    /\ pc \in {"loop", "monitor"} => calls = <<>>
    /\ pc \notin {"setup", "propagated"} =>
          (idx <= Len(data_sizes) + 1 /\ Len(outcome) = idx - 1)

\* The second case of a run has made all its operations.
InstrumentationOrderWitness ==
    /\ pc = "verify"
    /\ idx = 2
    /\ Len(calls) = 20
    /\ calls[9][1] = "encrypt" /\ calls[17][1] = "decrypt"

CallsOf(op) == {i \in 1..Len(calls) : calls[i][1] = op}

\* C16: the synthetic buffer is generated once per case and is no argument
\* of keygen, encrypt or decrypt: their arguments are the shared pair, the
\* attribute list, the random value, the policy string, the ciphertext of
\* that value and the key, none of which is made from the payload size.
BufferNotMeasured ==
    /\ Cardinality(CallsOf("generate_test_data")) <= 1
    /\ test_data # None =>
          /\ Cardinality(CallsOf("generate_test_data")) = 1
          /\ test_data[1].length = 1024 * data_sizes[idx]
    /\ \A i \in CallsOf("keygen")  : calls[i][2] = <<pk, msk, attr_list>>
    /\ \A i \in CallsOf("encrypt") : calls[i][2] = <<pk, msg, policy_str>>
    /\ \A i \in CallsOf("decrypt") : calls[i][2] = <<pk, ctxt, key>>
    /\ key # None => key[1] = [attrs |-> attr_list]
    /\ msg # None => msg[1] \in GTValues
    /\ ctxt # None => ctxt[1] = [policy |-> policy_str, plain |-> msg[1]]
    /\ rec_msg # None => rec_msg[1] \in GTValues

\* A case of size 1024 has made both timed calls; its buffer of 1 MB exists.
BufferNotMeasuredWitness ==
    /\ pc = "verify"
    /\ data_sizes[idx] = 1024
    /\ test_data[1].length = 1048576
    /\ CallsOf("encrypt") = {9} /\ CallsOf("decrypt") = {17}
    /\ calls[9][2] = <<pk, msg, policy_str>>

\* C17: with an empty all_results, export_results_to_csv prints "No results
\* to export" and returns: no matrix is built, the CSV file is neither
\* created nor overwritten, nothing is raised, and the run goes on through
\* its summary to its end.
EmptyExport ==
    /\ []((pc \in {"summary", "done"} /\ all_results = <<>>) =>
            /\ Printed(<<"No results to export">>)
            /\ csv_data = None
            /\ exc = "none")
    /\ [][(pc = "export" /\ all_results = <<>>) =>
            (pc' = "summary" /\ csv_data' = None /\ csv_file' = csv_file)]_vars
    /\ [][all_results' = <<>> => csv_file' = csv_file]_vars
    /\ [][pc = "summary" => pc' = "done"]_vars

\* A run of two cases that both raised is over; the file of an earlier run
\* is still there.
EmptyExportWitness ==
    /\ pc = "done"
    /\ Len(data_sizes) = 2
    /\ all_results = <<>>
    /\ csv_file = Some(OldCsv)
    /\ Printed(<<"No results to export">>)

====
